---- MODULE Spec2Model ----
(***************************************************************************)
(* Model of src/plannerui.py: the Streamlit front end of the multimodal    *)
(* route planner.  Every user interaction reruns the script from the top  *)
(* on an empty page (Rerun); the rerun then takes the branch of the button *)
(* that was pressed (SavePrefs, Search) or of none (NoButton).  Widget     *)
(* values are the inputs of a rerun.  The planner module (paths_to_segs,   *)
(* choose_best_route, haversine, draw_map, load_prefs, save_prefs,         *)
(* append_history, AVG_WALK_SPEED) is imported by plannerui.py but is not  *)
(* part of the sources; those operators follow spec.md.                    *)
(*                                                                         *)
(* Units: distances are whole metres, durations are hundredths of a        *)
(* minute (so round(x, 2) is a rounding to an integer), coordinates are    *)
(* hundredths of a degree.                                                 *)
(***************************************************************************)
EXTENDS Integers, Sequences, FiniteSets, TLC

VARIABLES
    prefs,      \* st.session_state["prefs"]
    saved,      \* the persisted preference document (load_prefs / save_prefs)
    route,      \* st.session_state["route"]
    history,    \* the records handed to append_history, in order
    clock,      \* number of searches run so far; datetime.now() of a search
    pc,         \* "waiting" for the user, or "running" the script
    last        \* what the current rerun read, computed and put on the page

vars == <<prefs, saved, route, history, clock, pc, last>>

----------------------------------------------------------------------------
(* Bounds *)

MaxRuns == 2        \* searches per behaviour
MaxRoutes == 3      \* longest candidate list given to the selector alone

----------------------------------------------------------------------------
(* Text inputs.  A string is the sequence of its comma-separated           *)
(* components (what s.split(",") returns); a component is a clean decimal  *)
(* ("37.52"), a decimal followed by other characters ("37.5abc"), text     *)
(* with no leading number ("abc"), or empty.                               *)

Num(v) == [k |-> "num", v |-> v]
Pfx(v) == [k |-> "pfx", v |-> v]
Junk == [k |-> "junk", v |-> 0]
EmptyComp == [k |-> "empty", v |-> 0]

StrEmpty == <<EmptyComp>>                         \* ""
StrA == <<Num(3750), Num(12700)>>                 \* "37.50,127.00"
StrB == <<Num(3752), Num(12701)>>                 \* "37.52,127.01"
StrPfx == <<Pfx(3752), Num(12701)>>               \* "37.52abc,127.01"
StrThree == <<Num(3752), Num(12701), Num(9)>>     \* "37.52,127.01,9"
StrJunk == <<Junk>>                               \* "abc"

Inputs == {StrEmpty, StrA, StrB, StrPfx, StrThree, StrJunk}

\* not s, for a str
IsBlank(s) == s = StrEmpty

\* JavaScript parseFloat: the longest numeric prefix, NaN when there is none
JsIsNaN(c) == c.k \notin {"num", "pfx"}

\* const [y, x] = s.split(",").map(parseFloat): the first two components,
\* a missing one is undefined; isNaN(undefined) is true
JsPairOk(s) == Len(s) >= 2 /\ ~JsIsNaN(s[1]) /\ ~JsIsNaN(s[2])

\* Python float(): the whole component must be a number
PyFloatOk(c) == c.k = "num"

\* sy, sx = map(float, s.split(",")): exactly two components, both floats;
\* FALSE stands for ValueError
PyPairOk(s) == Len(s) = 2 /\ PyFloatOk(s[1]) /\ PyFloatOk(s[2])

\* (float(s.split(",")[0]), float(s.split(",")[1])): the first two
\* components, any further ones are ignored; FALSE stands for an exception
PyFirstTwoOk(s) == Len(s) >= 2 /\ PyFloatOk(s[1]) /\ PyFloatOk(s[2])

\* the coordinate pair (lat, lng) read from the first two components
Coord(s) == <<s[1].v, s[2].v>>

----------------------------------------------------------------------------
(* Preference controls (sidebar widgets) *)

Modes == {"SUBWAY", "BUS", "WALK"}

\* the widget values: CtlA is what they show at first, CtlB what a user
\* with no tolerance for crowds and a taste for walking sets
CtlA ==
    [crowd_weight |-> 2, max_crowd |-> 4, walk_limit_min |-> 15,
     mode_penalty |-> [m \in Modes |-> 0],
     mode_preference |-> [m \in Modes |-> 0]]

CtlB ==
    [crowd_weight |-> 0, max_crowd |-> 1, walk_limit_min |-> 30,
     mode_penalty |-> [m \in Modes |-> IF m = "WALK" THEN 1 ELSE 0],
     mode_preference |-> [m \in Modes |-> 0]]

Controls == {CtlA, CtlB}

\* current_prefs: the dict built from the widget values on every rerun
current_prefs(c) ==
    [crowd_weight |-> c.crowd_weight, max_crowd |-> c.max_crowd,
     walk_limit_min |-> c.walk_limit_min,
     mode_penalty |-> c.mode_penalty,
     mode_preference |-> c.mode_preference]

\* to_save: the widget values plus the run counter of the session prefs
to_save(c, p) ==
    [crowd_weight |-> c.crowd_weight, max_crowd |-> c.max_crowd,
     walk_limit_min |-> c.walk_limit_min,
     mode_penalty |-> c.mode_penalty,
     mode_preference |-> c.mode_preference,
     runs |-> p.runs]

\* the document load_prefs() finds when the session starts; the widgets
\* take their first values (CtlA) from it
StoredPrefs ==
    [crowd_weight |-> 2, max_crowd |-> 4, walk_limit_min |-> 15,
     mode_penalty |-> [m \in Modes |-> 0],
     mode_preference |-> [m \in Modes |-> 0],
     runs |-> 3]

----------------------------------------------------------------------------
(* The planner module, after spec.md *)

\* AVG_WALK_SPEED * 60: 1.3 m/s, in metres per minute
WalkMetresPerMin == 78

\* metres per hundredth of a degree of latitude, and of longitude at 37.5 N
LatMetres == 1112
LngMetres == 882

Abs(x) == IF x < 0 THEN 0 - x ELSE x

\* the largest r in lo..hi with r * r <= n, by bisection
RECURSIVE SqrtBetween(_, _, _)
SqrtBetween(n, lo, hi) ==
    IF lo >= hi THEN lo
    ELSE LET mid == (lo + hi + 1) \div 2
         IN  IF mid * mid <= n
             THEN SqrtBetween(n, mid, hi)
             ELSE SqrtBetween(n, lo, mid - 1)

\* the whole metres of a square root (46340 is the largest root whose
\* square fits 32 bits)
ISqrt(n) == SqrtBetween(n, 0, IF n < 46340 THEN n ELSE 46340)

\* haversine(a, b): great-circle distance in metres; over the few
\* kilometres of a city the sphere is flat
haversine(a, b) ==
    LET dy == Abs(a[1] - b[1]) * LatMetres
        dx == Abs(a[2] - b[2]) * LngMetres
    IN  ISqrt(dy * dy + dx * dx)

\* provider mode code 1 -> SUBWAY, 2 -> BUS, anything else -> WALK
ModeOf(trafficType) ==
    CASE trafficType = 1 -> "SUBWAY"
      [] trafficType = 2 -> "BUS"
      [] OTHER -> "WALK"

\* one raw sub-path record to one Segment; a WALK duration is always
\* recomputed from the distance
Normalize(sp, p) ==
    LET mode == ModeOf(sp.trafficType)
    IN  [mode |-> mode,
         name |-> sp.name,
         distance_m |-> sp.distance,
         duration_min |->
            IF mode = "WALK"
            THEN (sp.distance * 100) \div WalkMetresPerMin
            ELSE sp.sectionTime * 100,
         crowd |-> sp.crowd,
         best_car |-> IF mode = "SUBWAY" THEN sp.car ELSE 0,
         poly |-> <<>>]

\* paths_to_segs(subPath, prefs): one Segment per sub-path, order kept
paths_to_segs(subPath, p) ==
    [i \in 1..Len(subPath) |-> Normalize(subPath[i], p)]

RECURSIVE WalkMin(_)
WalkMin(segs) ==
    IF segs = <<>> THEN 0
    ELSE (IF Head(segs).mode = "WALK" THEN Head(segs).duration_min ELSE 0)
         + WalkMin(Tail(segs))

\* the crowd ceiling and the ceiling on the minutes walked
Feasible(segs, p) ==
    /\ \A i \in 1..Len(segs) : segs[i].crowd <= p.max_crowd
    /\ WalkMin(segs) <= p.walk_limit_min * 100

SegCost(s, p) ==
    s.duration_min
    + s.duration_min * (p.mode_penalty[s.mode] + p.mode_preference[s.mode])
    + p.crowd_weight * (s.crowd - 1) * 100

RECURSIVE Cost(_, _)
Cost(segs, p) ==
    IF segs = <<>> THEN 0 ELSE SegCost(Head(segs), p) + Cost(Tail(segs), p)

\* a later route replaces the best one so far only when it is cheaper
Better_lastWins(c, best) == c <= best

Better(c, best) == c < best

\* the scan of choose_best_route: i is the next position, best the position
\* of the best feasible route so far (0: none yet)
RECURSIVE ScanRoutes(_, _, _, _)
ScanRoutes(routes, p, i, best) ==
    IF i > Len(routes) THEN best
    ELSE IF ~Feasible(routes[i], p) THEN ScanRoutes(routes, p, i + 1, best)
    ELSE IF best = 0 \/ Better(Cost(routes[i], p), Cost(routes[best], p))
         THEN ScanRoutes(routes, p, i + 1, i)
         ELSE ScanRoutes(routes, p, i + 1, best)

\* choose_best_route(routes, prefs) -> (best_idx, segs); positions count
\* from 1 and best_idx = 0 with segs_none stands for (None, None)
choose_best_route(routes, p) ==
    LET b == ScanRoutes(routes, p, 1, 0)
    IN  [best_idx |-> b,
         segs_none |-> b = 0,
         segs |-> IF b = 0 THEN <<>> ELSE routes[b]]

\* draw_map(segs, origin, dest): the map shows the legs and the two ends
draw_map(segs, o, d) == [legs |-> segs, start |-> o, end |-> d]

----------------------------------------------------------------------------
(* What the browser hands back (JS_TEMPLATE run by st_javascript) *)

Sub(tt, minutes, metres, crowd, nm) ==
    [trafficType |-> tt, sectionTime |-> minutes, distance |-> metres,
     crowd |-> crowd, name |-> nm, car |-> 0]

PathEmpty == [subPath |-> <<>>]
PathSubway == [subPath |-> <<Sub(1, 10, 5000, 2, "2")>>]
PathBus == [subPath |-> <<Sub(2, 12, 4000, 1, "472")>>]
PathWalk == [subPath |-> <<Sub(3, 5, 1560, 1, "walk")>>]
PathPacked == [subPath |-> <<Sub(1, 5, 2500, 4, "9")>>]

\* the "path" arrays of the provider's answers
PathLists ==
    {<<>>, <<PathEmpty>>, <<PathSubway>>, <<PathWalk>>,
     <<PathEmpty, PathSubway>>}

NoResponse == [kind |-> "none", error |-> "", path |-> <<>>]
ErrorResponse(msg) == [kind |-> "error", error |-> msg, path |-> <<>>]
OkResponse(paths) == [kind |-> "ok", error |-> "", path |-> paths]
NotCalled == [kind |-> "not_called", error |-> "", path |-> <<>>]

\* the string st_javascript returns for the two text inputs: nothing, an
\* {error: ...} object (bad coordinates, a status that is not ok, an
\* exception of fetch, the provider's own error object), or the provider's
\* JSON
BrowserResults(origin, dest) ==
    IF ~(JsPairOk(origin) /\ JsPairOk(dest))
    THEN {NoResponse, ErrorResponse("Invalid coordinate format")}
    ELSE {NoResponse,
          ErrorResponse("HTTP 500"),
          ErrorResponse("TypeError: Failed to fetch"),
          ErrorResponse("ApiKeyAuthFailed")}
         \cup {OkResponse(pl) : pl \in PathLists}

----------------------------------------------------------------------------
(* The search button handler *)

\* "error" in resp
HasError_ignored(resp) == FALSE

HasError(resp) == resp.kind = "error"

\* resp.get("result", {}).get("path", [])
PathsOf(resp) == resp.path

\* routes = [paths_to_segs(p.get("subPath", []), prefs=current_prefs)
\*           for p in paths]; one entry per path, none left out
AssembleRoutes(paths, cur) ==
    [routes |-> [i \in 1..Len(paths) |-> paths_to_segs(paths[i].subPath, cur)],
     prefs |-> IF paths = <<>> THEN {} ELSE {cur}]

\* round(num / den, 2) in hundredths: the nearest integer to 100 * num / den
\* (a tie to the even one)
Round2_truncated(num, den) == (100 * num) \div den

Round2(num, den) ==
    LET q == (100 * num) \div den
        r == (100 * num) % den
    IN  IF 2 * r > den \/ (2 * r = den /\ q % 2 = 1) THEN q + 1 ELSE q

\* the fallback: one straight-line WALK segment from origin to dest
FallbackSegs_noPoly(o, d) ==
    <<[mode |-> "WALK", name |-> "straight walk",
       distance_m |-> haversine(o, d),
       duration_min |-> Round2(haversine(o, d), WalkMetresPerMin),
       crowd |-> 1, best_car |-> 0, poly |-> <<>>]>>

FallbackSegs(o, d) ==
    <<[mode |-> "WALK", name |-> "straight walk",
       distance_m |-> haversine(o, d),
       duration_min |-> Round2(haversine(o, d), WalkMetresPerMin),
       crowd |-> 1, best_car |-> 0, poly |-> <<o, d>>]>>

\* total_min = sum(s.get("duration_min", 0) for s in segs)
RECURSIVE TotalMin(_)
TotalMin(segs) ==
    IF segs = <<>> THEN 0 ELSE Head(segs).duration_min + TotalMin(Tail(segs))

\* {s.get("mode") for s in segs}
ModesUsed(segs) == {segs[i].mode : i \in 1..Len(segs)}

NoRoute == [present |-> FALSE, map |-> draw_map(<<>>, <<0, 0>>, <<0, 0>>),
            segs |-> <<>>, total_min |-> 0]

\* a rerun that stopped before anything was computed
Stopped(outcome, ctl, learn, origin, dest, raw) ==
    [outcome |-> outcome, ctl |-> ctl, learn |-> learn,
     origin |-> origin, dest |-> dest, raw |-> raw,
     scored |-> FALSE, cand |-> <<>>, norm_prefs |-> {}, sel_prefs |-> {},
     best_idx |-> 0, segs_none |-> TRUE, fallback |-> FALSE,
     shown |-> FALSE, segs |-> <<>>, total_min |-> 0]

\* the handler from the click to its last line or to the st.stop() or
\* exception that ends it.  outcome names where it ended; shown tells
\* whether the summary of segs was written to the page
RunSearch(ctl, learn, origin, dest, raw) ==
    IF IsBlank(origin) \/ IsBlank(dest)
    THEN Stopped("missing_input", ctl, learn, origin, dest, raw)
    ELSE IF raw.kind = "none"
    THEN Stopped("no_response", ctl, learn, origin, dest, raw)
    ELSE IF HasError(raw)
    THEN Stopped("provider_error", ctl, learn, origin, dest, raw)
    ELSE
      LET cur == current_prefs(ctl)
          asm == AssembleRoutes(PathsOf(raw), cur)
          sel == choose_best_route(asm.routes, cur)
          fb == sel.segs = <<>>                    \* if not segs
          parsed == PyPairOk(origin) /\ PyPairOk(dest)
          segs == IF ~fb THEN sel.segs
                  ELSE IF parsed THEN FallbackSegs(Coord(origin), Coord(dest))
                  ELSE <<>>
          scored == [Stopped("done", ctl, learn, origin, dest, raw)
                     EXCEPT !.scored = TRUE, !.cand = asm.routes,
                            !.norm_prefs = asm.prefs, !.sel_prefs = {cur},
                            !.best_idx = sel.best_idx,
                            !.segs_none = sel.segs_none,
                            !.fallback = fb]
      IN  IF fb /\ ~parsed
          THEN [scored EXCEPT !.outcome = "coord_error"]
          ELSE IF ~(PyFirstTwoOk(origin) /\ PyFirstTwoOk(dest))
          THEN [scored EXCEPT !.outcome = "draw_map_exception",
                              !.shown = TRUE, !.segs = segs,
                              !.total_min = TotalMin(segs)]
          ELSE [scored EXCEPT !.shown = TRUE, !.segs = segs,
                              !.total_min = TotalMin(segs)]

\* st.session_state["route"] = {"map": ..., "segs": ..., "total_min": ...},
\* reached only by a handler that ran to its end
RouteAfter_clearedOnStop(old, r) ==
    IF r.outcome = "done"
    THEN [present |-> TRUE,
          map |-> draw_map(r.segs, Coord(r.origin), Coord(r.dest)),
          segs |-> r.segs, total_min |-> r.total_min]
    ELSE NoRoute

RouteAfter(old, r) ==
    IF r.outcome = "done"
    THEN [present |-> TRUE,
          map |-> draw_map(r.segs, Coord(r.origin), Coord(r.dest)),
          segs |-> r.segs, total_min |-> r.total_min]
    ELSE old

\* if learn_mode: append_history({...}), the last statement of the handler
HistoryAfter_always(old, r, now) ==
    IF r.outcome = "done"
    THEN Append(old, [datetime |-> now, origin |-> r.origin, dest |-> r.dest,
                      total_min |-> r.total_min, modes |-> ModesUsed(r.segs)])
    ELSE old

HistoryAfter(old, r, now) ==
    IF r.outcome = "done" /\ r.learn
    THEN Append(old, [datetime |-> now, origin |-> r.origin, dest |-> r.dest,
                      total_min |-> r.total_min, modes |-> ModesUsed(r.segs)])
    ELSE old

----------------------------------------------------------------------------
(* The session *)

Idle == Stopped("idle", CtlA, FALSE, StrEmpty, StrEmpty, NotCalled)

Init ==
    /\ saved = StoredPrefs
    /\ prefs = StoredPrefs            \* load_prefs()
    /\ route = NoRoute                \* None
    /\ history = <<>>
    /\ clock = 0
    /\ pc = "waiting"
    /\ last = Idle

\* an interaction starts a rerun of the script: the page of the previous
\* run is dropped, the session state stays
Rerun ==
    /\ pc = "waiting"
    /\ pc' = "running"
    /\ last' = Idle
    /\ UNCHANGED <<prefs, saved, route, history, clock>>

\* a rerun with neither button pressed (a widget was edited)
NoButton ==
    /\ pc = "running"
    /\ pc' = "waiting"
    /\ UNCHANGED <<prefs, saved, route, history, clock, last>>

\* the "save preferences" button
SavePrefs(ctl) ==
    /\ pc = "running"
    /\ pc' = "waiting"
    /\ saved' = to_save(ctl, prefs)
    /\ prefs' = to_save(ctl, prefs)
    /\ last' = Stopped("saved", ctl, FALSE, StrEmpty, StrEmpty, NotCalled)
    /\ UNCHANGED <<route, history, clock>>

\* st_javascript is reached only when both text inputs are filled in
Answers(origin, dest) ==
    IF IsBlank(origin) \/ IsBlank(dest)
    THEN {NotCalled} ELSE BrowserResults(origin, dest)

SearchRun(ctl, learn, origin, dest, raw) ==
    /\ pc = "running"
    /\ pc' = "waiting"
    /\ clock < MaxRuns
    /\ raw \in Answers(origin, dest)
    /\ LET r == RunSearch(ctl, learn, origin, dest, raw)
       IN  /\ last' = r
           /\ route' = RouteAfter(route, r)
           /\ history' = HistoryAfter(history, r, clock + 1)
    /\ clock' = clock + 1

\* a search that also stores the snapshot as the session preferences
Search_storesPrefs(ctl, learn, origin, dest, raw) ==
    /\ SearchRun(ctl, learn, origin, dest, raw)
    /\ prefs' = to_save(ctl, prefs)
    /\ UNCHANGED saved

\* the "search" button
Search(ctl, learn, origin, dest, raw) ==
    /\ SearchRun(ctl, learn, origin, dest, raw)
    /\ UNCHANGED <<prefs, saved>>

Next ==
    \/ Rerun
    \/ NoButton
    \/ /\ pc = "running"
       /\ \E ctl \in Controls : SavePrefs(ctl)
    \/ /\ pc = "running"
       /\ \E ctl \in Controls, learn \in BOOLEAN, origin \in Inputs,
             dest \in Inputs :
            \E raw \in Answers(origin, dest) :
                Search(ctl, learn, origin, dest, raw)

Spec == Init /\ [][Next]_vars

----------------------------------------------------------------------------
(* The selector on its own: choose_best_route applied to every candidate   *)
(* list of up to MaxRoutes routes                                          *)

RouteKinds ==
    {paths_to_segs(p.subPath, current_prefs(CtlA)) :
        p \in {PathEmpty, PathSubway, PathBus, PathWalk, PathPacked}}

CandidateLists ==
    UNION {[1..n -> RouteKinds] : n \in 0..MaxRoutes}

InitSelect ==
    /\ saved = StoredPrefs
    /\ prefs = StoredPrefs
    /\ route = NoRoute
    /\ history = <<>>
    /\ clock = 0
    /\ pc = "running"
    /\ \E routes \in CandidateLists, ctl \in Controls :
          last = [Idle EXCEPT !.ctl = ctl, !.cand = routes]

\* best_idx, segs = choose_best_route(routes, prefs=current_prefs)
Select ==
    /\ pc = "running"
    /\ pc' = "selected"
    /\ LET cur == current_prefs(last.ctl)
           sel == choose_best_route(last.cand, cur)
       IN  last' = [last EXCEPT !.outcome = "selected", !.scored = TRUE,
                                !.sel_prefs = {cur},
                                !.best_idx = sel.best_idx,
                                !.segs_none = sel.segs_none,
                                !.segs = sel.segs,
                                !.fallback = sel.segs = <<>>]
    /\ UNCHANGED <<prefs, saved, route, history, clock>>

NextSelect == Select

SpecSelect == InitSelect /\ [][NextSelect]_vars

----------------------------------------------------------------------------
(* Vocabulary of the properties *)

\* the string is a "lat,lng" pair: two components, both numbers
ValidPair(s) == Len(s) = 2 /\ s[1].k = "num" /\ s[2].k = "num"

\* the last rerun was a search (whatever its end)
Searched == last.outcome \notin {"idle", "saved", "selected"}

\* the search ended at an st.stop() that follows a message to the user
StoppedWithMessage ==
    last.outcome \in {"missing_input", "no_response", "provider_error",
                      "coord_error"}

\* the provider, or the call to it, failed
ProviderFailed ==
    /\ last.raw.kind = "error"
    /\ last.raw.error # "Invalid coordinate format"

\* segs is the straight-line walking route from o to d
IsFallbackRoute(segs, o, d) ==
    /\ Len(segs) = 1
    /\ segs[1].mode = "WALK"
    /\ segs[1].distance_m = haversine(o, d)
    /\ segs[1].crowd = 1
    /\ segs[1].best_car = 0
    /\ segs[1].poly = <<o, d>>

RECURSIVE SumDuration(_)
SumDuration(segs) ==
    IF segs = <<>> THEN 0
    ELSE segs[1].duration_min + SumDuration(SubSeq(segs, 2, Len(segs)))

\* the preference profile made of the control values c
Snapshot(c) ==
    [crowd_weight |-> c.crowd_weight, max_crowd |-> c.max_crowd,
     walk_limit_min |-> c.walk_limit_min, mode_penalty |-> c.mode_penalty,
     mode_preference |-> c.mode_preference]

\* the positions of the non-empty feasible candidates of the last search
FeasibleCandidates ==
    {i \in 1..Len(last.cand) :
        last.cand[i] # <<>> /\ Feasible(last.cand[i], Snapshot(last.ctl))}

\* the positions of all feasible candidates of the last selection
FeasibleIdx ==
    {i \in 1..Len(last.cand) : Feasible(last.cand[i], Snapshot(last.ctl))}

----------------------------------------------------------------------------
(* Properties *)

C2_FailureFallsBack ==
    ProviderFailed =>
        /\ last.outcome = "done"
        /\ last.fallback
        /\ last.shown

\* C2 amended: a failure of the provider (network error, non-success status,
\* error payload) is reported to the user and ends the search: nothing is
\* scored and no itinerary, fallback or other, is shown.
C2_FailureStops ==
    ProviderFailed =>
        /\ last.outcome = "provider_error"
        /\ ~last.scored
        /\ ~last.shown

C2_Witness ==
    /\ ProviderFailed
    /\ last.outcome = "provider_error"
    /\ ValidPair(last.origin) /\ ValidPair(last.dest)

\* C3: an origin or destination that is not a valid "lat,lng" pair always
\* ends the search at a message to the user: nothing is scored, no itinerary
\* is shown and map drawing raises no exception.
C3_MalformedSurfaced ==
    (Searched /\ (~ValidPair(last.origin) \/ ~ValidPair(last.dest))) =>
        /\ StoppedWithMessage
        /\ ~last.scored
        /\ ~last.shown

\* C4: no empty route is in the candidate list passed to choose_best_route.
C4_NoEmptyCandidate ==
    last.scored => \A i \in 1..Len(last.cand) : last.cand[i] # <<>>

\* C5: a search that reaches selection yields the fallback route exactly
\* when no candidate is feasible, and shows one of the provider's candidates
\* whenever a feasible one exists.
C5_FallbackIffInfeasible ==
    (Searched /\ last.scored) =>
        /\ (last.shown /\ last.fallback) <=> (FeasibleCandidates = {})
        /\ FeasibleCandidates # {} =>
              /\ last.shown
              /\ \E i \in FeasibleCandidates : last.segs = last.cand[i]

\* C6 as stated: the fallback's duration_min is exactly distance_m divided
\* by (walking speed * 60).
C6_ExactDuration ==
    (last.shown /\ last.fallback) =>
        last.segs[1].duration_min * WalkMetresPerMin
            = last.segs[1].distance_m * 100

\* C6 amended: the fallback's duration_min is distance_m divided by
\* (walking speed * 60), rounded to the nearest hundredth of a minute.
C6_RoundedDuration ==
    (last.shown /\ last.fallback) =>
        LET exact == last.segs[1].distance_m * 100
            got == last.segs[1].duration_min * WalkMetresPerMin
        IN  2 * (IF got > exact THEN got - exact ELSE exact - got)
                <= WalkMetresPerMin

C6_Witness ==
    /\ last.shown /\ last.fallback
    /\ last.segs[1].distance_m > 0
    /\ last.segs[1].duration_min * WalkMetresPerMin
          # last.segs[1].distance_m * 100

\* C7: the chosen route is a feasible candidate of minimal cost, the one of
\* lowest index among those of minimal cost; no route is chosen exactly when
\* no candidate is feasible.
C7_MinCostLowestIndex ==
    last.scored =>
        LET p == Snapshot(last.ctl)
            b == last.best_idx
        IN  IF FeasibleIdx = {} THEN b = 0 /\ last.segs_none
            ELSE /\ b \in FeasibleIdx
                 /\ last.segs = last.cand[b]
                 /\ \A j \in FeasibleIdx :
                       /\ Cost(last.cand[b], p) <= Cost(last.cand[j], p)
                       /\ Cost(last.cand[b], p) = Cost(last.cand[j], p) => b <= j

C7_Witness ==
    /\ last.scored
    /\ \E i, j \in FeasibleIdx :
          /\ i < j
          /\ last.cand[i] # last.cand[j]
          /\ last.best_idx = i
          /\ Cost(last.cand[i], Snapshot(last.ctl))
                = Cost(last.cand[j], Snapshot(last.ctl))

\* C8: normalization and selection of a search both get the one snapshot of
\* the control values; a search changes neither the session preferences nor
\* the saved ones, which change only by the save button, to the control
\* values and the kept run counter.
C8_SnapshotAndFrame ==
    [][/\ last'.scored =>
            /\ last'.sel_prefs = {Snapshot(last'.ctl)}
            /\ last'.norm_prefs \subseteq {Snapshot(last'.ctl)}
       /\ clock' # clock => (prefs' = prefs /\ saved' = saved)
       /\ (prefs' # prefs \/ saved' # saved) =>
            /\ last'.outcome = "saved"
            /\ prefs' = saved'
            /\ Snapshot(prefs') = Snapshot(last'.ctl)
            /\ prefs'.runs = prefs.runs]_vars

C8_Witness ==
    /\ last.outcome = "done"
    /\ last.norm_prefs = {Snapshot(CtlB)}
    /\ prefs = StoredPrefs /\ saved = StoredPrefs
    /\ Snapshot(prefs) # Snapshot(last.ctl)

\* C9: a search appends one history record (timestamp, origin, destination,
\* total duration = sum of its segments' duration_min, modes used) when it
\* runs to its end with learning mode on, and no step appends or changes
\* anything otherwise.
C9_HistoryAppend ==
    [][IF clock' # clock /\ last'.outcome = "done" /\ last'.learn
       THEN /\ last'.shown
            /\ history' = Append(history,
                  [datetime |-> clock',
                   origin |-> last'.origin,
                   dest |-> last'.dest,
                   total_min |-> SumDuration(last'.segs),
                   modes |-> {last'.segs[i].mode : i \in 1..Len(last'.segs)}])
       ELSE history' = history]_vars

C9_Witness ==
    /\ Len(history) = 1
    /\ clock = 2
    /\ last.outcome = "done" /\ last.learn
    /\ history[1].datetime = 2
    /\ history[1].total_min > 0

\* C10: the cached route is none at the start; a search that runs to its end
\* stores its non-empty segment list and their summed duration; every other
\* step, an aborted search included, leaves the cached route as it was.
C10_CachedRoute ==
    /\ route = NoRoute
    /\ [][IF clock' # clock /\ last'.outcome = "done"
          THEN /\ route'.present
               /\ route'.segs = last'.segs
               /\ route'.segs # <<>>
               /\ route'.total_min = SumDuration(route'.segs)
          ELSE route' = route]_vars

C10_Witness ==
    /\ route.present
    /\ clock = 2
    /\ Searched /\ last.outcome # "done"
    /\ route.segs # last.segs

====
